---- MODULE Spec2Model ----
(***************************************************************************)
(* Model of runner.py: the axis-separated collision resolver (Player.move),*)
(* the player physics (Player.impulse), the lazy world generator           *)
(* (Game.generate), the tile grid (Grid) and the Inventory.                *)
(*                                                                         *)
(* Rectangles are records [x, y, w, h] in world pixels, as pygame.Rect:    *)
(* left = x, top = y, right = x + w, bottom = y + h.                       *)
(* Random draws and densities are integers in thousandths (0.05 = 50).     *)
(***************************************************************************)
EXTENDS Integers, Sequences, FiniteSets, TLC

VARIABLES
    hitbox,         \* Player.hitbox (Solid.hitbox)
    speed,          \* Player.speed, a vector [x, y]
    jumps,          \* Player.jumps
    physicsConfig,  \* Player.physicsConfig
    solids,         \* Game.solids: set of entities [id, hitbox]
    displacement,   \* argument of Player.move
    collisions,     \* local `collisions` of Player.move (last computed)
    prev,           \* hitbox, speed and jumps before the last step of Player.move
    inputs,         \* Game.inputs: held keys and this tick's key-down events
    pc,             \* position of the running operation
    grid,           \* Grid.data: tile coordinate -> entity
    spaces,         \* Game.spaces
    collectables,   \* Game.collectables: entities [id, hitbox, inventory]
    densityConfig,  \* densityConfig argument of Game.generate
    tiles,          \* tiles of the running generate call not yet iterated
    nextId,         \* number of entities constructed so far
    rolls,          \* tile -> value drawn for the tile's own roll
    visit,          \* the last tile iterated and whether the grid held it
    storage,        \* Inventory.storage
    result,         \* outcome of the last Inventory operation
    last,           \* the last Inventory operation and the storage before it
    scale,          \* Grid.scale
    viewbox,        \* Viewbox.rect
    visibleTiles,   \* value returned by Grid.viewbox_tiles
    tick            \* main's count of finished loop iterations

playerVars == <<hitbox, speed, jumps, physicsConfig, solids, displacement,
                collisions, prev, inputs>>
genVars == <<grid, spaces, collectables, densityConfig, tiles, nextId,
             rolls, visit>>
invVars == <<storage, result, last>>
viewVars == <<scale, viewbox, visibleTiles, tick>>
vars == <<playerVars, pc, genVars, invVars, viewVars>>

----------------------------------------------------------------------------
(* Bounds of the model *)

MaxPos == 3
MaxDisp == 2
MaxObstacles == 2
MaxWorld == 8
MaxJumps == 3
MaxQty == 3
MaxView == 4
MaxScale == 3
MaxOdd == 0
MaxEntities == 2

(* Sizes of the body, the obstacles and the tiles in the bounded runs *)
BodySize == 2
ObstacleSize == 3
PlayScale == 4

(* Ticks of the main loop that are run, and the side of its viewbox *)
MaxTicks == 3
FallTicks == 16
GameView == 3

----------------------------------------------------------------------------
(* Generic helpers *)

Min(S) == CHOOSE m \in S : \A n \in S : m <= n
Max(S) == CHOOSE m \in S : \A n \in S : m >= n
Abs(n) == IF n < 0 THEN -n ELSE n

Rect(x, y, w, h) == [x |-> x, y |-> y, w |-> w, h |-> h]
Left(r) == r.x
Top(r) == r.y
Right(r) == r.x + r.w
Bottom(r) == r.y + r.h
Vector2(x, y) == [x |-> x, y |-> y]

(* Area shared by two rectangles *)
OverlapArea(a, b) ==
    LET ow == Min({Right(a), Right(b)}) - Max({Left(a), Left(b)})
        oh == Min({Bottom(a), Bottom(b)}) - Max({Top(a), Top(b)})
    IN  IF ow > 0 /\ oh > 0 THEN ow * oh ELSE 0

----------------------------------------------------------------------------
(* Solid *)

(* Faulty variant: rectangles that share an edge collide *)
colliderect_closed(a, b) ==
    /\ a.w # 0 /\ a.h # 0 /\ b.w # 0 /\ b.h # 0
    /\ Left(a) <= Right(b)
    /\ Top(a) <= Bottom(b)
    /\ Right(a) >= Left(b)
    /\ Bottom(a) >= Top(b)

(* pygame.Rect.colliderect: rectangles that only share an edge do not
   collide, and a rectangle of zero size collides with nothing *)
colliderect(a, b) ==
    /\ a.w # 0 /\ a.h # 0 /\ b.w # 0 /\ b.h # 0
    /\ Left(a) < Right(b)
    /\ Top(a) < Bottom(b)
    /\ Right(a) > Left(b)
    /\ Bottom(a) > Top(b)

collided(selfHitbox, other) == colliderect(selfHitbox, other.hitbox)

Solid_collisions(selfHitbox, others) ==
    UNION {{o \in others : collided(rect, o)} : rect \in {selfHitbox}}

----------------------------------------------------------------------------
(* Player.move *)

(* Faulty variant: the horizontal snap picks the farthest obstacle edge *)
MoveX_farthest(hb, sp, d, others) ==
    LET moved == [hb EXCEPT !.x = @ + d.x]
        cols == Solid_collisions(moved, others)
    IN  IF cols = {}
        THEN [hitbox |-> moved, speed |-> sp, collisions |-> cols]
        ELSE IF d.x > 0
        THEN [hitbox |-> [moved EXCEPT !.x =
                            Max({Left(c.hitbox) : c \in cols}) - moved.w],
              speed |-> [sp EXCEPT !.x = 0], collisions |-> cols]
        ELSE [hitbox |-> [moved EXCEPT !.x =
                            Min({Right(c.hitbox) : c \in cols})],
              speed |-> [sp EXCEPT !.x = 0], collisions |-> cols]

(* Faulty variant: a horizontal collision leaves the horizontal speed alone *)
MoveX_keepSpeed(hb, sp, d, others) ==
    LET moved == [hb EXCEPT !.x = @ + d.x]
        cols == Solid_collisions(moved, others)
    IN  IF cols = {}
        THEN [hitbox |-> moved, speed |-> sp, collisions |-> cols]
        ELSE IF d.x > 0
        THEN [hitbox |-> [moved EXCEPT !.x =
                            Min({Left(c.hitbox) : c \in cols}) - moved.w],
              speed |-> sp, collisions |-> cols]
        ELSE [hitbox |-> [moved EXCEPT !.x =
                            Max({Right(c.hitbox) : c \in cols})],
              speed |-> sp, collisions |-> cols]

(* Faulty variant: an X collision stops the player on both axes *)
MoveX_stopBoth(hb, sp, d, others) ==
    LET moved == [hb EXCEPT !.x = @ + d.x]
        cols == Solid_collisions(moved, others)
    IN  IF cols = {}
        THEN [hitbox |-> moved, speed |-> sp, collisions |-> cols]
        ELSE IF d.x > 0
        THEN [hitbox |-> [moved EXCEPT !.x =
                            Min({Left(c.hitbox) : c \in cols}) - moved.w],
              speed |-> Vector2(0, 0), collisions |-> cols]
        ELSE [hitbox |-> [moved EXCEPT !.x =
                            Max({Right(c.hitbox) : c \in cols})],
              speed |-> Vector2(0, 0), collisions |-> cols]

(* Horizontal half of Player.move: translate, collide, snap, stop *)
MoveX(hb, sp, d, others) ==
    LET moved == [hb EXCEPT !.x = @ + d.x]
        cols == Solid_collisions(moved, others)
    IN  IF cols = {}
        THEN [hitbox |-> moved, speed |-> sp, collisions |-> cols]
        ELSE IF d.x > 0
        THEN [hitbox |-> [moved EXCEPT !.x =
                            Min({Left(c.hitbox) : c \in cols}) - moved.w],
              speed |-> [sp EXCEPT !.x = 0], collisions |-> cols]
        ELSE [hitbox |-> [moved EXCEPT !.x =
                            Max({Right(c.hitbox) : c \in cols})],
              speed |-> [sp EXCEPT !.x = 0], collisions |-> cols]

(* Faulty variant: landing does not refill the jumps *)
MoveY_noRefill(hb, sp, j, d, others, cfg) ==
    LET moved == [hb EXCEPT !.y = @ + d.y]
        cols == Solid_collisions(moved, others)
    IN  IF cols = {}
        THEN [hitbox |-> moved, speed |-> sp, jumps |-> j, collisions |-> cols]
        ELSE IF d.y > 0
        THEN [hitbox |-> [moved EXCEPT !.y =
                            Min({Top(c.hitbox) : c \in cols}) - moved.h],
              speed |-> [sp EXCEPT !.y = 0], jumps |-> j,
              collisions |-> cols]
        ELSE [hitbox |-> [moved EXCEPT !.y =
                            Max({Bottom(c.hitbox) : c \in cols})],
              speed |-> [sp EXCEPT !.y = 0], jumps |-> j,
              collisions |-> cols]

(* Faulty variant: any vertical collision refills the jumps *)
MoveY_refillAlways(hb, sp, j, d, others, cfg) ==
    LET moved == [hb EXCEPT !.y = @ + d.y]
        cols == Solid_collisions(moved, others)
    IN  IF cols = {}
        THEN [hitbox |-> moved, speed |-> sp, jumps |-> j, collisions |-> cols]
        ELSE IF d.y > 0
        THEN [hitbox |-> [moved EXCEPT !.y =
                            Min({Top(c.hitbox) : c \in cols}) - moved.h],
              speed |-> [sp EXCEPT !.y = 0], jumps |-> cfg.jumps,
              collisions |-> cols]
        ELSE [hitbox |-> [moved EXCEPT !.y =
                            Max({Bottom(c.hitbox) : c \in cols})],
              speed |-> [sp EXCEPT !.y = 0], jumps |-> cfg.jumps,
              collisions |-> cols]

(* Faulty variant: landing gives one jump whatever the configuration *)
MoveY_refillOne(hb, sp, j, d, others, cfg) ==
    LET moved == [hb EXCEPT !.y = @ + d.y]
        cols == Solid_collisions(moved, others)
    IN  IF cols = {}
        THEN [hitbox |-> moved, speed |-> sp, jumps |-> j, collisions |-> cols]
        ELSE IF d.y > 0
        THEN [hitbox |-> [moved EXCEPT !.y =
                            Min({Top(c.hitbox) : c \in cols}) - moved.h],
              speed |-> [sp EXCEPT !.y = 0], jumps |-> 1,
              collisions |-> cols]
        ELSE [hitbox |-> [moved EXCEPT !.y =
                            Max({Bottom(c.hitbox) : c \in cols})],
              speed |-> [sp EXCEPT !.y = 0], jumps |-> j,
              collisions |-> cols]

(* Vertical half of Player.move; a downward collision refills the jumps *)
MoveY(hb, sp, j, d, others, cfg) ==
    LET moved == [hb EXCEPT !.y = @ + d.y]
        cols == Solid_collisions(moved, others)
    IN  IF cols = {}
        THEN [hitbox |-> moved, speed |-> sp, jumps |-> j, collisions |-> cols]
        ELSE IF d.y > 0
        THEN [hitbox |-> [moved EXCEPT !.y =
                            Min({Top(c.hitbox) : c \in cols}) - moved.h],
              speed |-> [sp EXCEPT !.y = 0], jumps |-> cfg.jumps,
              collisions |-> cols]
        ELSE [hitbox |-> [moved EXCEPT !.y =
                            Max({Bottom(c.hitbox) : c \in cols})],
              speed |-> [sp EXCEPT !.y = 0], jumps |-> j,
              collisions |-> cols]

----------------------------------------------------------------------------
(* Configuration of main() *)

(* Player.physicsDictionary(jump=19, gravity=1, maxFall=32, maxSpeed=7,
   speed=2, jumps=1) *)
MainPhysics ==
    [jump |-> 19, gravity |-> 1, maxFall |-> 32,
     maxSpeed |-> 7, speed |-> 2, jumps |-> 1]

(* config["blockSize"] *)
blockSize == 32

(* The densities of config, in thousandths *)
MainDensity ==
    [coinDensity |-> 5, blockDensity |-> 50,
     blockClumpRadius |-> 1, blockClumpDensity |-> 800]

(* pygame.Rect(0, 0, config["windowWidth"], config["windowHeight"]), the
   viewbox of main() *)
MainViewbox == Rect(0, 0, 512, 512)

(* pygame.Rect(0, 0, 20, 20), the hitbox main() gives the player *)
PlayerHitbox == Rect(0, 0, 20, 20)

(* No key held and no event *)
NoInput ==
    [keyboard |-> [left |-> FALSE, right |-> FALSE, jump |-> FALSE],
     events |-> <<>>]

----------------------------------------------------------------------------
(* Values of the variables an operation does not use *)

PlayerIdle ==
    /\ hitbox = PlayerHitbox
    /\ speed = Vector2(0, 0)
    /\ jumps = 0
    /\ physicsConfig = MainPhysics
    /\ solids = {}
    /\ displacement = Vector2(0, 0)
    /\ collisions = {}
    /\ prev = [hitbox |-> PlayerHitbox, speed |-> Vector2(0, 0), jumps |-> 0]
    /\ inputs = NoInput

GenIdle ==
    /\ grid = <<>>
    /\ spaces = {}
    /\ collectables = {}
    /\ densityConfig = MainDensity
    /\ tiles = <<>>
    /\ nextId = 0
    /\ rolls = <<>>
    /\ visit = [tile |-> <<>>, charted |-> FALSE]

InvIdle ==
    /\ storage = <<>>
    /\ result = [kind |-> "none"]
    /\ last = [op |-> "none"]

ViewIdle ==
    /\ scale = blockSize
    /\ viewbox = Rect(0, 0, 0, 0)
    /\ visibleTiles = {}
    /\ tick = 0

----------------------------------------------------------------------------
(* Player.move on bounded obstacle sets, bodies and displacements *)

Positions == 0..MaxPos
Displacements == {Vector2(dx, dy) : dx \in -MaxDisp..MaxDisp,
                                    dy \in -MaxDisp..MaxDisp}
ObstacleCorners ==
    {<<1, 1>>, <<2, 0>>, <<0, 3>>, <<3, 2>>, <<4, 4>>, <<2, 2>>}
Obstacles ==
    {[id |-> 1 + c[1] + (MaxPos + 2) * c[2],
      hitbox |-> Rect(c[1], c[2], ObstacleSize, ObstacleSize)] :
        c \in ObstacleCorners}
ObstacleSets == {S \in SUBSET Obstacles : Cardinality(S) <= MaxObstacles}

InitMove ==
    /\ hitbox \in {Rect(x, y, BodySize, BodySize) :
                       x \in Positions, y \in Positions}
    /\ displacement \in Displacements
    /\ speed = displacement
    /\ jumps = 0
    /\ physicsConfig = MainPhysics
    /\ solids \in ObstacleSets
    /\ collisions = {}
    /\ prev = [hitbox |-> hitbox, speed |-> speed, jumps |-> jumps]
    /\ inputs = NoInput
    /\ pc = "move"
    /\ GenIdle /\ InvIdle /\ ViewIdle

MoveXStep ==
    /\ pc = "move"
    /\ \E r \in {MoveX(hitbox, speed, displacement, solids)} :
           /\ hitbox' = r.hitbox
           /\ speed' = r.speed
           /\ collisions' = r.collisions
    /\ prev' = [hitbox |-> hitbox, speed |-> speed, jumps |-> jumps]
    /\ pc' = "movedX"
    /\ UNCHANGED <<jumps, physicsConfig, solids, displacement, inputs>>
    /\ UNCHANGED <<genVars, invVars, viewVars>>

MoveYStep ==
    /\ pc = "movedX"
    /\ \E r \in {MoveY(hitbox, speed, jumps, displacement, solids,
                         physicsConfig)} :
           /\ hitbox' = r.hitbox
           /\ speed' = r.speed
           /\ jumps' = r.jumps
           /\ collisions' = r.collisions
    /\ prev' = [hitbox |-> hitbox, speed |-> speed, jumps |-> jumps]
    /\ pc' = "movedY"
    /\ UNCHANGED <<physicsConfig, solids, displacement, inputs>>
    /\ UNCHANGED <<genVars, invVars, viewVars>>

NextMove == MoveXStep \/ MoveYStep

SpecMove == InitMove /\ [][NextMove]_vars

(* The hitbox tentatively moved along one axis, and the obstacles it
   shares area with *)
TentativeX == [prev.hitbox EXCEPT !.x = @ + displacement.x]
TentativeY == [prev.hitbox EXCEPT !.y = @ + displacement.y]
Intersected(tentative) ==
    {o \in solids : OverlapArea(tentative, o.hitbox) > 0}

(* C1: after Player.move resolves the X axis the hitbox shares no area with
   any obstacle that intersected the tentatively X-moved hitbox, and after
   it resolves the Y axis it shares no area with any obstacle that
   intersected the tentatively Y-moved hitbox. *)
C1_NoOverlapAfterAxis ==
    /\ pc = "movedX" =>
          \A o \in Intersected(TentativeX) :
              OverlapArea(hitbox, o.hitbox) = 0
    /\ pc = "movedY" =>
          \A o \in Intersected(TentativeY) :
              OverlapArea(hitbox, o.hitbox) = 0

(* A body that started overlapping an obstacle met two obstacles with
   different left edges while moving right *)
C1_Witness ==
    /\ pc = "movedX"
    /\ displacement.x > 0
    /\ \E o \in solids : OverlapArea(prev.hitbox, o.hitbox) > 0
    /\ \E o1, o2 \in Intersected(TentativeX) :
          Left(o1.hitbox) < Left(o2.hitbox)

(* C4: per axis, with no intersected obstacle the coordinate is old +
   displacement and the axis speed is unchanged; otherwise the axis speed is
   0 and, for positive displacement, the right (bottom) edge equals the
   least left (top) edge of the intersected obstacles, for zero or negative
   displacement the left (top) edge equals their greatest right (bottom)
   edge. *)
C4_AxisRule ==
    /\ pc = "movedX" =>
          LET hit == Intersected(TentativeX)
          IN  IF hit = {}
              THEN /\ hitbox.x = prev.hitbox.x + displacement.x
                   /\ speed.x = prev.speed.x
              ELSE /\ speed.x = 0
                   /\ IF displacement.x > 0
                      THEN Right(hitbox) = Min({Left(o.hitbox) : o \in hit})
                      ELSE Left(hitbox) = Max({Right(o.hitbox) : o \in hit})
    /\ pc = "movedY" =>
          LET hit == Intersected(TentativeY)
          IN  IF hit = {}
              THEN /\ hitbox.y = prev.hitbox.y + displacement.y
                   /\ speed.y = prev.speed.y
              ELSE /\ speed.y = 0
                   /\ IF displacement.y > 0
                      THEN Bottom(hitbox) = Min({Top(o.hitbox) : o \in hit})
                      ELSE Top(hitbox) = Max({Bottom(o.hitbox) : o \in hit})

(* Moving right with non-zero speed into an obstacle ended flush against
   its left edge, stopped *)
C4_Witness ==
    /\ pc = "movedX"
    /\ displacement.x > 0
    /\ prev.speed.x > 0
    /\ Intersected(TentativeX) # {}
    /\ speed.x = 0
    /\ \E o \in solids : Right(hitbox) = Left(o.hitbox)

(* The obstacles whose closed rectangle meets the tentative hitbox, shared
   edges and corners included *)
ClosedMeet(a, b) ==
    /\ Left(a) <= Right(b) /\ Left(b) <= Right(a)
    /\ Top(a) <= Bottom(b) /\ Top(b) <= Bottom(a)
Touched(tentative) == {o \in solids : ClosedMeet(tentative, o.hitbox)}

(* C17 as stated: the collision set Player.move uses on each axis is the
   set of obstacles whose closed rectangle intersects the tentatively moved
   hitbox, so an obstacle that merely shares an edge with it is in the
   set. *)
C17_ClosedCollisionSet ==
    /\ pc = "movedX" => collisions = Touched(TentativeX)
    /\ pc = "movedY" => collisions = Touched(TentativeY)

(* C17 amended: the collision set on each axis is the set of obstacles that
   share positive area with the tentatively moved hitbox; an obstacle that
   merely shares an edge or a corner with it is not in the set, and when
   only such obstacles are met the move is kept and the axis speed is
   unchanged. *)
C17_OpenCollisionSet ==
    /\ pc = "movedX" =>
          /\ collisions = Intersected(TentativeX)
          /\ collisions = {} =>
                 hitbox = TentativeX /\ speed.x = prev.speed.x
    /\ pc = "movedY" =>
          /\ collisions = Intersected(TentativeY)
          /\ collisions = {} =>
                 hitbox = TentativeY /\ speed.y = prev.speed.y

(* A body moved down to rest exactly on an obstacle's top edge: the
   obstacle is not in the collision set and the fall speed is kept *)
C17_Witness ==
    /\ pc = "movedY"
    /\ displacement.y > 0
    /\ \E o \in solids :
          /\ Top(o.hitbox) = Bottom(TentativeY)
          /\ Left(o.hitbox) < Right(TentativeY)
          /\ Left(TentativeY) < Right(o.hitbox)
    /\ collisions = {}
    /\ hitbox = TentativeY
    /\ speed.y = prev.speed.y

(* C24: Player.move is axis-separated: the X step leaves hitbox.y, speed.y
   and jumps unchanged; the Y collision set is computed from the hitbox at
   its position after the X resolution and the Y step leaves hitbox.x and
   speed.x unchanged; an X collision never cancels the Y displacement. *)
C24_AxisSeparated ==
    /\ pc = "movedX" =>
          /\ hitbox.y = prev.hitbox.y
          /\ speed.y = prev.speed.y
          /\ jumps = prev.jumps
    /\ pc = "movedY" =>
          /\ hitbox.x = prev.hitbox.x
          /\ speed.x = prev.speed.x
          /\ collisions = {o \in solids : colliderect(TentativeY, o.hitbox)}
          /\ collisions = {} => hitbox.y = prev.hitbox.y + displacement.y

(* The X step was stopped by an obstacle and the Y step still moved the
   body by the whole Y displacement *)
C24_Witness ==
    /\ pc = "movedY"
    /\ displacement.x # 0 /\ displacement.y # 0
    /\ prev.speed.x = 0
    /\ collisions = {}
    /\ hitbox.y = prev.hitbox.y + displacement.y

----------------------------------------------------------------------------
(* Inventory *)

(* Inventory.__getitem__: the quantity of an item, 0 if it does not exist *)
Inventory_getitem(st, name) == IF name \in DOMAIN st THEN st[name] ELSE 0

(* Inventory.__setitem__ *)
Inventory_setitem(st, name, quantity) ==
    [n \in DOMAIN st \cup {name} |-> IF n = name THEN quantity ELSE st[n]]

(* Inventory.collect: every item of other is added to this inventory *)
Inventory_collect(st, other) ==
    [n \in DOMAIN st \cup DOMAIN other |->
        IF n \in DOMAIN other
        THEN Inventory_getitem(st, n) + other[n]
        ELSE st[n]]

(* Inventory.clean: the items of quantity 0 are removed and returned *)
Inventory_clean(st) ==
    LET names == {name \in DOMAIN st : st[name] = 0}
    IN  [storage |-> [n \in DOMAIN st \ names |-> st[n]],
         result |-> [kind |-> "return", value |-> names]]

(* Faulty variant: take removes the amount without checking that there is enough *)
Inventory_take_unchecked(st, item, num) ==
    IF item \notin DOMAIN st
    THEN [storage |-> st, result |-> [kind |-> "KeyError", value |-> item]]
    ELSE [storage |-> [st EXCEPT ![item] = @ - num],
          result |-> [kind |-> "return", value |-> st[item] - num]]

(* Inventory.take: self.storage[item] raises KeyError for an item that is
   not stored; otherwise the amount is removed when there is enough, and
   ValueError is raised when there is not *)
Inventory_take(st, item, num) ==
    IF item \notin DOMAIN st
    THEN [storage |-> st, result |-> [kind |-> "KeyError", value |-> item]]
    ELSE IF st[item] >= num
    THEN [storage |-> [st EXCEPT ![item] = @ - num],
          result |-> [kind |-> "return", value |-> st[item] - num]]
    ELSE [storage |-> st, result |-> [kind |-> "ValueError", value |-> item]]

----------------------------------------------------------------------------
(* Player.impulse *)

(* Faulty variant: the speed is not capped after the change *)
accelerate_x_noCap(sp, change, cfg) ==
    IF Abs(sp.x) < cfg.maxSpeed
    THEN [sp EXCEPT !.x = sp.x + change]
    ELSE sp

(* Player.accelerate_x: only attempted while under maxSpeed, then capped *)
accelerate_x(sp, change, cfg) ==
    IF Abs(sp.x) < cfg.maxSpeed
    THEN LET x == sp.x + change
         IN  [sp EXCEPT !.x = IF x < -cfg.maxSpeed THEN -cfg.maxSpeed
                              ELSE IF x > cfg.maxSpeed THEN cfg.maxSpeed
                              ELSE x]
    ELSE sp

(* Faulty variant: the deceleration is not clipped at 0 *)
decelerate_x_noClip(sp, change, cfg) ==
    IF sp.x > 0 THEN [sp EXCEPT !.x = sp.x - change]
    ELSE IF sp.x < 0 THEN [sp EXCEPT !.x = sp.x + change]
    ELSE sp

(* Player.decelerate_x: towards 0, clipped at 0 *)
decelerate_x(sp, change, cfg) ==
    IF sp.x > 0
    THEN [sp EXCEPT !.x = IF sp.x - change < 0 THEN 0 ELSE sp.x - change]
    ELSE IF sp.x < 0
    THEN [sp EXCEPT !.x = IF sp.x + change > 0 THEN 0 ELSE sp.x + change]
    ELSE sp

(* Keyset.held applied to the keyboard snapshot *)
held(name, keyboard) == keyboard[name]

(* Faulty variant: a jump key-down jumps even when no jumps remain *)
RECURSIVE JumpEvents_unguarded(_, _, _)
JumpEvents_unguarded(st, events, cfg) ==
    IF events = <<>> THEN st
    ELSE LET event == Head(events)
         IN  JumpEvents_unguarded(
                 IF event.type = "KEYDOWN" /\ event.key = "jump"
                 THEN [speed |-> [st.speed EXCEPT !.y = -cfg.jump],
                       jumps |-> st.jumps - 1]
                 ELSE st,
                 Tail(events), cfg)

(* Faulty variant: any event of a jump key jumps, key-up included *)
RECURSIVE JumpEvents_anyType(_, _, _)
JumpEvents_anyType(st, events, cfg) ==
    IF events = <<>> THEN st
    ELSE LET event == Head(events)
         IN  JumpEvents_anyType(
                 IF event.key = "jump" /\ st.jumps > 0
                 THEN [speed |-> [st.speed EXCEPT !.y = -cfg.jump],
                       jumps |-> st.jumps - 1]
                 ELSE st,
                 Tail(events), cfg)

(* The event loop of Player.impulse: st is [speed, jumps] *)
RECURSIVE JumpEvents(_, _, _)
JumpEvents(st, events, cfg) ==
    IF events = <<>> THEN st
    ELSE LET event == Head(events)
         IN  JumpEvents(
                 IF event.type = "KEYDOWN" /\ event.key = "jump"
                                           /\ st.jumps > 0
                 THEN [speed |-> [st.speed EXCEPT !.y = -cfg.jump],
                       jumps |-> st.jumps - 1]
                 ELSE st,
                 Tail(events), cfg)

(* Player.impulse: horizontal speed from the held keys, jumps from the
   key-down events, then gravity; the result is [speed, jumps] *)
Impulse(sp, j, inp, cfg) ==
    LET direction == (IF held("right", inp.keyboard) THEN 1 ELSE 0)
                     - (IF held("left", inp.keyboard) THEN 1 ELSE 0)
        sx == IF direction = -1 THEN accelerate_x(sp, -cfg.speed, cfg)
              ELSE IF direction = 1 THEN accelerate_x(sp, cfg.speed, cfg)
              ELSE decelerate_x(sp, cfg.speed, cfg)
        je == JumpEvents([speed |-> sx, jumps |-> j], inp.events, cfg)
    IN  [speed |-> IF je.speed.y < cfg.maxFall
                   THEN [je.speed EXCEPT !.y = @ + cfg.gravity]
                   ELSE je.speed,
         jumps |-> je.jumps]

----------------------------------------------------------------------------
(* Player.collect and Player.update *)

(* Player.collect: the inventories of the colliding items are collected *)
RECURSIVE CollectAll(_, _)
CollectAll(st, items) ==
    IF items = {} THEN st
    ELSE LET item == CHOOSE i \in items : TRUE
         IN  CollectAll(Inventory_collect(st, item.inventory),
                        items \ {item})

(* Faulty variant: a collected item is not removed from the collectables *)
PlayerUpdate_noKill(hb, sp, j, inp, cfg, others, st, items) ==
    LET i == Impulse(sp, j, inp, cfg)
        d == i.speed
        mx == MoveX(hb, i.speed, d, others)
        my == MoveY(mx.hitbox, mx.speed, i.jumps, d, others, cfg)
        got == Solid_collisions(my.hitbox, items)
    IN  [hitbox |-> my.hitbox, speed |-> my.speed, jumps |-> my.jumps,
         displacement |-> d, collisions |-> my.collisions,
         prev |-> [hitbox |-> mx.hitbox, speed |-> mx.speed,
                   jumps |-> i.jumps],
         storage |-> CollectAll(st, got), collectables |-> items]

(* Player.update: impulse, move by the new speed, collect; the result holds
   the player, the state between the two halves of the move, the inventory
   and the collectables left *)
PlayerUpdate(hb, sp, j, inp, cfg, others, st, items) ==
    LET i == Impulse(sp, j, inp, cfg)
        d == i.speed
        mx == MoveX(hb, i.speed, d, others)
        my == MoveY(mx.hitbox, mx.speed, i.jumps, d, others, cfg)
        got == Solid_collisions(my.hitbox, items)
    IN  [hitbox |-> my.hitbox, speed |-> my.speed, jumps |-> my.jumps,
         displacement |-> d, collisions |-> my.collisions,
         prev |-> [hitbox |-> mx.hitbox, speed |-> mx.speed,
                   jumps |-> i.jumps],
         storage |-> CollectAll(st, got), collectables |-> items \ got]

----------------------------------------------------------------------------
(* Keyboards, events, blocks and configurations of the tick loop *)

Keyboard(l, r, j) == [left |-> l, right |-> r, jump |-> j]
Keyboards ==
    {Keyboard(FALSE, FALSE, FALSE), Keyboard(TRUE, FALSE, FALSE),
     Keyboard(FALSE, TRUE, FALSE), Keyboard(TRUE, TRUE, FALSE),
     Keyboard(FALSE, FALSE, TRUE)}
JumpDown == [type |-> "KEYDOWN", key |-> "jump"]
EventLists == {<<>>, <<JumpDown>>, <<JumpDown, JumpDown>>}

(* Events that are no key-down of a jump key, alone and before one *)
JumpUp == [type |-> "KEYUP", key |-> "jump"]
LeftDown == [type |-> "KEYDOWN", key |-> "left"]
OtherEventLists == {<<JumpUp>>, <<LeftDown>>, <<JumpUp, JumpDown>>}

(* Grid.rect: the rectangle bounding a tile *)
Grid_rect(pos, s) == Rect(pos[1] * s, pos[2] * s, s, s)

(* A Block built by Grid.add_block, its image as large as a tile *)
Block(id, pos, s) == [id |-> id, hitbox |-> Grid_rect(pos, s)]

PlayConfigs ==
    {[jump |-> 3, gravity |-> 1, maxFall |-> 3,
      maxSpeed |-> 2, speed |-> 1, jumps |-> 2],
     [jump |-> 4, gravity |-> 2, maxFall |-> 3,
      maxSpeed |-> 3, speed |-> 2, jumps |-> 1]}

(* A floor of two blocks with a wall on its right end, tiles of PlayScale *)
PlayTiles == <<<<0, 1>>, <<1, 1>>, <<2, 0>>>>
PlayLayout == {Block(i, PlayTiles[i], PlayScale) : i \in 1..Len(PlayTiles)}

(* The grid after Grid.add_block has placed the blocks of PlayLayout *)
PlayGrid ==
    [t \in {PlayTiles[i] : i \in 1..Len(PlayTiles)} |->
        Block(CHOOSE i \in 1..Len(PlayTiles) : PlayTiles[i] = t, t,
              PlayScale)]

(* A viewbox that lies within the tile of the first block of the floor *)
PlayViewbox == Rect(0, PlayScale, PlayScale - 1, PlayScale - 1)

InWorld(hb) == Abs(hb.x) <= MaxWorld /\ Abs(hb.y) <= MaxWorld

----------------------------------------------------------------------------
(* An Inventory under its operations: item assignment, take, collect and
   clean *)

Items == {"coin", "gem"}

(* The inventories with quantities 0..MaxQty *)
Inventories == UNION {[D -> 0..MaxQty] : D \in SUBSET Items}

(* The quantities an item assignment is given: a negative one among them *)
AssignedQuantities == (-1)..MaxQty

InitInv ==
    /\ storage \in Inventories
    /\ result = [kind |-> "none"]
    /\ last = [op |-> "none"]
    /\ pc = "inventory"
    /\ PlayerIdle /\ GenIdle /\ ViewIdle

Take(item, num) ==
    /\ pc = "inventory"
    /\ \E r \in {Inventory_take(storage, item, num)} :
           /\ storage' = r.storage
           /\ result' = r.result
    /\ last' = [op |-> "take", item |-> item, num |-> num,
                before |-> storage]
    /\ UNCHANGED <<playerVars, pc, genVars, viewVars>>

Collect(other) ==
    /\ pc = "inventory"
    /\ \A n \in DOMAIN other :
          Inventory_getitem(storage, n) + other[n] <= MaxQty
    /\ storage' = Inventory_collect(storage, other)
    /\ result' = [kind |-> "return", value |-> "None"]
    /\ last' = [op |-> "collect", other |-> other, before |-> storage]
    /\ UNCHANGED <<playerVars, pc, genVars, viewVars>>

Clean ==
    /\ pc = "inventory"
    /\ \E r \in {Inventory_clean(storage)} :
           /\ storage' = r.storage
           /\ result' = r.result
    /\ last' = [op |-> "clean", before |-> storage]
    /\ UNCHANGED <<playerVars, pc, genVars, viewVars>>

(* inv[name] = quantity: the quantity is stored as it is given *)
SetItem(name, quantity) ==
    /\ pc = "inventory"
    /\ storage' = Inventory_setitem(storage, name, quantity)
    /\ result' = [kind |-> "return", value |-> "None"]
    /\ last' = [op |-> "setitem", name |-> name, quantity |-> quantity,
                before |-> storage]
    /\ UNCHANGED <<playerVars, pc, genVars, viewVars>>

NextInv ==
    \/ \E item \in Items, num \in 0..MaxQty : Take(item, num)
    \/ \E other \in Inventories : Collect(other)
    \/ Clean
    \/ \E name \in Items, quantity \in AssignedQuantities :
          SetItem(name, quantity)

SpecInv == InitInv /\ [][NextInv]_vars

(* C6: take(item, n) with n above the current quantity (0 for an absent
   item) fails with ValueError and leaves the storage unchanged; otherwise
   it lowers that item's quantity by n, changes no other item and returns
   the remaining quantity. *)
C6_TakeAllOrNothing ==
    last.op = "take" =>
        LET had == Inventory_getitem(last.before, last.item)
        IN  IF last.num > had
            THEN /\ result.kind = "ValueError"
                 /\ storage = last.before
            ELSE /\ result = [kind |-> "return", value |-> had - last.num]
                 /\ Inventory_getitem(storage, last.item) = had - last.num
                 /\ \A n \in Items \ {last.item} :
                       /\ n \in DOMAIN storage <=> n \in DOMAIN last.before
                       /\ Inventory_getitem(storage, n)
                              = Inventory_getitem(last.before, n)

NonNegative(st) == \A n \in DOMAIN st : st[n] >= 0

(* C7: the inventory starts with non-negative quantities, and a take of a
   non-negative amount (failing or succeeding), a collect of an inventory
   with non-negative quantities and a clean each leave every stored
   quantity >= 0 when every stored quantity was >= 0 before; so after any
   sequence of these operations every stored quantity is >= 0. (An item
   assignment stores what it is given, a negative quantity too.) *)
C7_NonNegative ==
    [][(/\ NonNegative(storage)
        /\ last'.op \in {"take", "collect", "clean"})
       => NonNegative(storage')]_vars

(* A take of more than there is was refused, the storage left as it was *)
C7_Witness ==
    /\ last.op = "take"
    /\ NonNegative(last.before)
    /\ last.item \in DOMAIN last.before
    /\ last.num > last.before[last.item]
    /\ result.kind = "ValueError"
    /\ storage = last.before

----------------------------------------------------------------------------
(* Grid.index and Grid.viewbox_tiles *)

(* pygame.Rect.topleft and pygame.Rect.bottomright *)
topleft(r) == <<r.x, r.y>>
bottomright(r) == <<r.x + r.w, r.y + r.h>>

(* pygame.Rect.center, read and assigned *)
center(rect) == <<rect.x + rect.w \div 2, rect.y + rect.h \div 2>>
CentredOn(rect, c) ==
    [rect EXCEPT !.x = c[1] - rect.w \div 2, !.y = c[2] - rect.h \div 2]

(* Faulty variant: the tile index is rounded towards zero *)
Grid_index_truncating(pos, s) ==
    <<IF pos[1] >= 0 THEN pos[1] \div s ELSE -((-pos[1]) \div s),
      IF pos[2] >= 0 THEN pos[2] \div s ELSE -((-pos[2]) \div s)>>

(* Grid.index: floor division of both coordinates by the scale *)
Grid_index(pos, s) == <<pos[1] \div s, pos[2] \div s>>

(* Grid.viewbox_tiles: the tiles from the index of the viewbox's topleft to
   the index of its bottomright, both included *)
viewbox_tiles(rect, s) ==
    LET topLeft == Grid_index(topleft(rect), s)
        bottomRight == Grid_index(bottomright(rect), s)
    IN  {<<column, row>> : column \in topLeft[1]..bottomRight[1],
                           row \in topLeft[2]..bottomRight[2]}

(* Viewboxes with corners within MaxView of the origin, and the two
   viewboxes of two tiles of blockSize at the origin: the one whose
   bottomright is (63, 63) and the one whose last pixel is (63, 63) *)
ViewRects ==
    {Rect(x, y, w, h) : x \in -MaxView..MaxView, y \in -MaxView..MaxView,
                        w \in 1..MaxView, h \in 1..MaxView}
    \cup {Rect(0, 0, 2 * blockSize - 1, 2 * blockSize - 1),
          Rect(0, 0, 2 * blockSize, 2 * blockSize)}

Scales == (1..MaxScale) \cup {blockSize}

InitView ==
    /\ scale \in Scales
    /\ viewbox \in ViewRects
    /\ visibleTiles = {}
    /\ tick = 0
    /\ pc = "view"
    /\ PlayerIdle /\ GenIdle /\ InvIdle

ViewTiles ==
    /\ pc = "view"
    /\ visibleTiles' = viewbox_tiles(viewbox, scale)
    /\ pc' = "viewed"
    /\ UNCHANGED <<playerVars, genVars, invVars, scale, viewbox, tick>>

NextView == ViewTiles

SpecView == InitView /\ [][NextView]_vars

(* The tiles around the viewbox, one ring more than any tile it can meet *)
NearTiles ==
    {<<c, r>> :
        c \in ((viewbox.x \div scale) - 1)
                  ..(((viewbox.x + viewbox.w) \div scale) + 1),
        r \in ((viewbox.y \div scale) - 1)
                  ..(((viewbox.y + viewbox.h) \div scale) + 1)}

(* The tile [c*S, (c+1)*S) x [r*S, (r+1)*S) shares a point with the pixels
   [left, left + width) x [top, top + height) of the viewbox *)
MeetsPixels(t) ==
    /\ Max({t[1] * scale, viewbox.x})
           < Min({(t[1] + 1) * scale, viewbox.x + viewbox.w})
    /\ Max({t[2] * scale, viewbox.y})
           < Min({(t[2] + 1) * scale, viewbox.y + viewbox.h})

(* The tile shares a point with the closed rectangle from the viewbox's
   topleft to its bottomright *)
MeetsClosed(t) ==
    /\ t[1] * scale <= viewbox.x + viewbox.w
    /\ (t[1] + 1) * scale > viewbox.x
    /\ t[2] * scale <= viewbox.y + viewbox.h
    /\ (t[2] + 1) * scale > viewbox.y

(* C10 as stated: viewbox_tiles returns exactly the tiles whose rectangle
   intersects the view rectangle (left, top, width, height). *)
C10_ExactlyIntersecting ==
    pc = "viewed" => visibleTiles = {t \in NearTiles : MeetsPixels(t)}

(* C10 amended: viewbox_tiles returns exactly the tiles whose rectangle
   meets the closed rectangle from the viewbox's topleft (left, top) to its
   bottomright (left + width, top + height), floor division giving the tile
   index also for negative coordinates; bottomright (63, 63) with scale 32
   gives exactly the four tiles 0..1 x 0..1. *)
C10_ClosedRange ==
    /\ pc = "viewed" => visibleTiles = {t \in NearTiles : MeetsClosed(t)}
    /\ (pc = "viewed" /\ scale = 32 /\ topleft(viewbox) = <<0, 0>>
                      /\ bottomright(viewbox) = <<63, 63>>)
           => visibleTiles = {<<0, 0>>, <<0, 1>>, <<1, 0>>, <<1, 1>>}

(* A viewbox starting at negative coordinates whose right edge lies on a
   tile boundary got the column of tiles beyond that edge *)
C10_Witness ==
    /\ pc = "viewed"
    /\ viewbox.x < 0 /\ viewbox.y < 0
    /\ viewbox.x % scale # 0
    /\ viewbox.w > 0 /\ viewbox.h > 0
    /\ (viewbox.x + viewbox.w) % scale = 0
    /\ \E t \in visibleTiles : t[1] * scale = viewbox.x + viewbox.w

----------------------------------------------------------------------------
(* Game.generate.  The world is a record [grid, solids, spaces,
   collectables, nextId]; every entity constructed takes the next id. *)

(* Grid.__setitem__ *)
Grid_setitem(data, key, tile) == (key :> tile) @@ data

(* Grid.__delitem__: a key the grid does not hold raises KeyError and the
   grid is left as it was *)
Grid_delitem(data, key) == [k \in DOMAIN data \ {key} |-> data[k]]

(* Grid.generate_block: a block that fits the index, not added to the
   grid *)
Grid_generate_block(g, index, s) == Block(g.nextId + 1, index, s)

(* Grid.add_block: the block is built and written to the grid *)
Grid_add_block(g, index, s) ==
    LET block == Block(g.nextId + 1, index, s)
    IN  [g EXCEPT !.grid = Grid_setitem(@, index, block),
                  !.nextId = @ + 1]

(* self.solids.add(self.grid.add_block(index, self.images["block"])) *)
AddSolid(g, index, s) ==
    LET block == Block(g.nextId + 1, index, s)
    IN  [g EXCEPT !.grid = Grid_setitem(@, index, block),
                  !.solids = @ \cup {block},
                  !.nextId = @ + 1]

(* Faulty variant: the space is put in the grid but not in Game.spaces *)
AddSpace_unlisted(g, index, s) ==
    LET block == Block(g.nextId + 1, index, s)
    IN  [g EXCEPT !.grid = Grid_setitem(@, index, block),
                  !.nextId = @ + 1]

(* self.spaces.add(self.grid.add_block(index, self.images["space"])) *)
AddSpace(g, index, s) ==
    LET block == Block(g.nextId + 1, index, s)
    IN  [g EXCEPT !.grid = Grid_setitem(@, index, block),
                  !.spaces = @ \cup {block},
                  !.nextId = @ + 1]

(* self.collectables.add(Item(images["coin"], self.grid.rect(tile),
   Inventory({"coin": 1}))) *)
AddCoin(g, index, s) ==
    LET item == [id |-> g.nextId + 1, hitbox |-> Grid_rect(index, s),
                 inventory |-> [n \in {"coin"} |-> 1]]
    IN  [g EXCEPT !.collectables = @ \cup {item}, !.nextId = @ + 1]

(* Faulty variant: a tile is generated whether or not the grid holds it *)
Uncharted_always(g, index, destructive) == TRUE

(* destructive or tile not in self.grid *)
Uncharted(g, index, destructive) ==
    destructive \/ index \notin DOMAIN g.grid

(* The offsets of the clump in the order of the two loops over area *)
OffsetSeq(radius) ==
    LET n == 2 * radius + 1
    IN  [i \in 1..(n * n) |-> <<((i - 1) \div n) - radius,
                                ((i - 1) % n) - radius>>]

(* The splash loops: draws[i] is the value drawn for the i-th offset *)
RECURSIVE Splash(_, _, _, _, _, _, _)
Splash(g, tile, offsets, draws, cfg, s, destructive) ==
    CHOOSE world \in
        {IF left = <<>> THEN w
         ELSE LET o == Head(left)
                  index == <<tile[1] + o[1], tile[2] + o[2]>>
              IN  Splash(IF Head(drawn) < cfg.blockClumpDensity
                            /\ Uncharted(w, index, destructive)
                         THEN AddSolid(w, index, s)
                         ELSE w,
                         tile, Tail(left), Tail(drawn), cfg, s,
                         destructive) :
            w \in {g}, left \in {offsets}, drawn \in {draws}} : TRUE

(* Faulty variant: the block density is tested before the coin density *)
Outcome_blockFirst(val, cfg) ==
    IF val < cfg.blockDensity THEN "block"
    ELSE IF val < cfg.coinDensity THEN "coin"
    ELSE "space"

(* The if / elif / else on the value drawn for a tile: coin density takes
   precedence over blocks *)
Outcome(val, cfg) ==
    IF val < cfg.coinDensity THEN "coin"
    ELSE IF val < cfg.blockDensity THEN "block"
    ELSE "space"

(* Faulty variant: the block the splash puts to the right splashes too *)
GenerateTile_cascade(g, tile, val, draws, cfg, s, destructive) ==
    IF ~Uncharted(g, tile, destructive) THEN g
    ELSE IF Outcome(val, cfg) = "coin"
    THEN AddSpace(AddCoin(g, tile, s), tile, s)
    ELSE IF Outcome(val, cfg) = "block"
    THEN Splash(Splash(AddSolid(g, tile, s), tile,
                       OffsetSeq(cfg.blockClumpRadius), draws, cfg, s,
                       destructive),
                <<tile[1] + 1, tile[2]>>,
                OffsetSeq(cfg.blockClumpRadius), draws, cfg, s, destructive)
    ELSE AddSpace(g, tile, s)

(* The body of the loop over tiles: val is the value drawn for the tile,
   draws the values drawn in the splash loops *)
GenerateTile(g, tile, val, draws, cfg, s, destructive) ==
    IF ~Uncharted(g, tile, destructive) THEN g
    ELSE IF Outcome(val, cfg) = "coin"
    THEN AddSpace(AddCoin(g, tile, s), tile, s)
    ELSE IF Outcome(val, cfg) = "block"
    THEN Splash(AddSolid(g, tile, s), tile,
                OffsetSeq(cfg.blockClumpRadius), draws, cfg, s, destructive)
    ELSE AddSpace(g, tile, s)

(* Values of random.random() for a tile (coin, block, space) and for the
   offsets of a splash (every offset passes, none does) *)
GameDraws == {3, 30, 900}
SplashAll ==
    [i \in 1..((2 * MainDensity.blockClumpRadius + 1)
                 * (2 * MainDensity.blockClumpRadius + 1)) |-> 300]
SplashNone ==
    [i \in 1..((2 * MainDensity.blockClumpRadius + 1)
                 * (2 * MainDensity.blockClumpRadius + 1)) |-> 900]
GameSplashDraws == {SplashAll, SplashNone}

(* The orders in which a set can be iterated *)
Orders(S) ==
    {o \in [1..Cardinality(S) -> S] :
        \A i, j \in 1..Cardinality(S) : i # j => o[i] # o[j]}

(* Game.generate: the loop over tiles in the order ts; vals[t] is the value
   drawn for tile t when it is not in the grid, draws[t] the values of its
   splash; g also carries the rolls made so far.  The iterations of the
   first half of ts are followed by those of the second half. *)
RECURSIVE Generate(_, _, _, _, _, _, _)
Generate(g, ts, vals, draws, cfg, s, destructive) ==
    CHOOSE world \in
        {IF seq = <<>> THEN w
         ELSE IF Len(seq) = 1
         THEN LET tile == Head(seq)
                  done == GenerateTile(w, tile, vals[tile], draws[tile],
                                       cfg, s, destructive)
              IN  IF Uncharted(w, tile, destructive)
                  THEN [done EXCEPT
                           !.rolls = Grid_setitem(@, tile, vals[tile])]
                  ELSE done
         ELSE LET half == Len(seq) \div 2
              IN  Generate(Generate(w, SubSeq(seq, 1, half), vals, draws,
                                    cfg, s, destructive),
                           SubSeq(seq, half + 1, Len(seq)), vals, draws,
                           cfg, s, destructive) :
            w \in {g}, seq \in {ts}} : TRUE

GameWorld == [grid |-> grid, solids |-> solids, spaces |-> spaces,
              collectables |-> collectables, nextId |-> nextId,
              rolls |-> rolls]

(* The runs of a non-destructive Game.generate on the tiles vt, of which
   the grid does not hold the tiles uncharted: an order in which the set is
   iterated, the value drawn for each uncharted tile, and the values drawn
   in the splash of each tile that rolls a block.  Every order, every value
   of GameDraws and every splash of GameSplashDraws. *)
Runs(vt, uncharted, cfg) ==
    UNION {{[order |-> order, rolled |-> rolled, splashed |-> splashed] :
               order \in Orders(vt),
               splashed \in [{t \in uncharted :
                                 Outcome(rolled[t], cfg) = "block"}
                             -> GameSplashDraws]} :
           rolled \in [uncharted -> GameDraws]}

----------------------------------------------------------------------------
(* The grid and the groups of a Game under Game.generate, destructive or
   not, on batches of tiles around the block main() places at tile (0, 3),
   and under Grid.__delitem__ and Grid.add_block called on the grid itself *)

(* Equal densities: the coin test takes every value under the threshold *)
EqualDensity ==
    [coinDensity |-> 500, blockDensity |-> 500,
     blockClumpRadius |-> 1, blockClumpDensity |-> 800]

(* Values of random.random(), in thousandths *)
DrawValues == {3, 30, 300, 900}

(* The draws of one splash: all low, all high, or up to MaxOdd offsets
   differing from the rest *)
SplashDraws ==
    LET n == (2 * MainDensity.blockClumpRadius + 1)
                 * (2 * MainDensity.blockClumpRadius + 1)
        odd == {S \in SUBSET (1..n) : Cardinality(S) <= MaxOdd}
    IN  {[i \in 1..n |-> IF i \in S THEN 300 ELSE 900] : S \in odd}
        \cup {[i \in 1..n |-> IF i \in S THEN 900 ELSE 300] : S \in odd}

Window == {<<0, 2>>, <<0, 3>>, <<1, 3>>}
Batches ==
    {<<>>} \cup {<<t>> : t \in Window}
           \cup {<<p[1], p[2]>> : p \in {q \in Window \X Window :
                                               q[1] # q[2]}}

(* The tiles on which the grid is written and deleted directly and which
   destructive calls regenerate *)
EditTiles == Window
DestructiveBatches == {<<t>> : t \in EditTiles}

World == [grid |-> grid, solids |-> solids, spaces |-> spaces,
          collectables |-> collectables, nextId |-> nextId]

InitGen ==
    /\ densityConfig \in {MainDensity, EqualDensity}
    /\ scale = blockSize
    /\ grid = [k \in {<<0, 3>>} |-> Block(1, <<0, 3>>, blockSize)]
    /\ solids = {Block(1, <<0, 3>>, blockSize)}
    /\ spaces = {}
    /\ collectables = {}
    /\ nextId = 1
    /\ tiles = <<>>
    /\ rolls = <<>>
    /\ visit = [tile |-> <<>>, charted |-> FALSE]
    /\ pc = "generate"
    /\ hitbox = PlayerHitbox
    /\ speed = Vector2(0, 0)
    /\ jumps = 0
    /\ physicsConfig = MainPhysics
    /\ displacement = Vector2(0, 0)
    /\ collisions = {}
    /\ prev = [hitbox |-> PlayerHitbox, speed |-> Vector2(0, 0), jumps |-> 0]
    /\ inputs = NoInput
    /\ viewbox = Rect(0, 0, 0, 0)
    /\ visibleTiles = {}
    /\ tick = 0
    /\ InvIdle

(* The mode of the generate call that is running *)
Destructive == pc = "regenerating"

(* Destructive calls and operations on the grid itself build entities and
   uncover tiles without end; they are followed while at most MaxEntities
   entities have been built. *)
Editable == nextId <= MaxEntities

(* self.generate(tiles, config, destructive) is entered *)
GenerateCall(b, destructive) ==
    /\ pc = "generate"
    /\ destructive => Editable /\ b \in DestructiveBatches
    /\ tiles' = b
    /\ pc' = IF b = <<>> THEN "generate"
             ELSE IF destructive THEN "regenerating" ELSE "generating"
    /\ UNCHANGED <<playerVars, invVars, viewVars>>
    /\ UNCHANGED <<grid, spaces, collectables, densityConfig, nextId, rolls,
                   visit>>

(* One iteration of the loop over tiles, with the values it draws *)
GenerateStep(val, draws) ==
    /\ pc \in {"generating", "regenerating"}
    /\ \E g \in {GenerateTile(World, Head(tiles), val, draws, densityConfig,
                              scale, Destructive)} :
           /\ grid' = g.grid
           /\ solids' = g.solids
           /\ spaces' = g.spaces
           /\ collectables' = g.collectables
           /\ nextId' = g.nextId
    /\ rolls' = IF Uncharted(World, Head(tiles), Destructive)
                THEN [t \in DOMAIN rolls \cup {Head(tiles)} |->
                         IF t = Head(tiles) THEN val ELSE rolls[t]]
                ELSE rolls
    /\ visit' = [tile |-> Head(tiles),
                 charted |-> Head(tiles) \in DOMAIN grid]
    /\ tiles' = Tail(tiles)
    /\ pc' = IF Tail(tiles) = <<>> THEN "generate" ELSE pc
    /\ UNCHANGED <<hitbox, speed, jumps, physicsConfig, displacement,
                   collisions, prev, inputs>>
    /\ UNCHANGED <<densityConfig, invVars, viewVars>>

(* The values random.random() returns in one iteration: none for a tile
   that is skipped, one for the tile, and one per offset when the tile
   becomes a block *)
TileDraws ==
    IF /\ pc \in {"generating", "regenerating"}
       /\ Uncharted(World, Head(tiles), Destructive)
    THEN DrawValues ELSE {0}
ClumpDraws(val) ==
    IF /\ pc \in {"generating", "regenerating"}
       /\ Uncharted(World, Head(tiles), Destructive)
       /\ Outcome(val, densityConfig) = "block"
    THEN SplashDraws ELSE {<<>>}

(* del game.grid[key]: the key leaves the grid, the entity stays in its
   group; a key the grid does not hold raises KeyError *)
GridDelete(key) ==
    /\ pc = "generate"
    /\ Editable
    /\ grid' = Grid_delitem(grid, key)
    /\ UNCHANGED <<playerVars, invVars, viewVars>>
    /\ UNCHANGED <<pc, spaces, collectables, densityConfig, tiles, nextId,
                   rolls, visit>>

(* game.grid.add_block(index, image): the block is built and written to the
   grid, whatever the grid held at the index, and joins no group *)
GridAddBlock(index) ==
    /\ pc = "generate"
    /\ Editable
    /\ \E g \in {Grid_add_block(World, index, scale)} :
           /\ grid' = g.grid
           /\ nextId' = g.nextId
    /\ UNCHANGED <<playerVars, invVars, viewVars>>
    /\ UNCHANGED <<pc, spaces, collectables, densityConfig, tiles, rolls,
                   visit>>

(* game.grid[key] = game.grid[from]: the occupant of from is written at
   key as well, whatever the grid held there; a from the grid does not hold
   raises KeyError in __getitem__ *)
GridSetItem(key, from) ==
    /\ pc = "generate"
    /\ Editable
    /\ from \in DOMAIN grid
    /\ grid' = Grid_setitem(grid, key, grid[from])
    /\ UNCHANGED <<playerVars, invVars, viewVars>>
    /\ UNCHANGED <<pc, spaces, collectables, densityConfig, tiles, nextId,
                   rolls, visit>>

(* game.grid[key] = game.grid.generate_block(index, image): a block is
   built for index, which joins no group, and is written at key *)
GridSetGenerated(key, index) ==
    /\ pc = "generate"
    /\ Editable
    /\ grid' = Grid_setitem(grid, key, Grid_generate_block(World, index, scale))
    /\ nextId' = nextId + 1
    /\ UNCHANGED <<playerVars, invVars, viewVars>>
    /\ UNCHANGED <<pc, spaces, collectables, densityConfig, tiles, rolls,
                   visit>>

NextGen ==
    \/ \E b \in Batches, destructive \in BOOLEAN :
          GenerateCall(b, destructive)
    \/ \E val \in TileDraws : \E draws \in ClumpDraws(val) :
          GenerateStep(val, draws)
    \/ \E key \in Window : GridDelete(key)
    \/ \E index \in EditTiles : GridAddBlock(index)
    \/ \E key, from \in EditTiles : GridSetItem(key, from)
    \/ \E key \in EditTiles : GridSetGenerated(key, key)

SpecGen == InitGen /\ [][NextGen]_vars

(* The tile an entity was built for *)
TileOf(e) == Grid_index(topleft(e.hitbox), scale)

(* The entities a step adds to solids, spaces or collectables *)
AddedBlocks == (solids' \cup spaces') \ (solids \cup spaces)
AddedItems == collectables' \ collectables

(* C2: in non-destructive mode every iteration of Game.generate leaves
   each coordinate present in the grid with its occupant, so that under any
   sequence of such calls the occupant stays for ever; iterating a tile the
   grid already holds changes nothing in the grid, solids, spaces or
   collectables; and no entity is added at a coordinate the grid already
   held, nor two blocks at one coordinate. *)
C2_DecidedOnce ==
    [][pc = "generating" =>
          /\ \A t \in DOMAIN grid :
                 t \in DOMAIN grid' /\ grid'[t] = grid[t]
          /\ Head(tiles) \in DOMAIN grid
                 => UNCHANGED <<grid, solids, spaces, collectables>>
          /\ \A e \in AddedBlocks \cup AddedItems :
                 TileOf(e) \notin DOMAIN grid
          /\ \A e1, e2 \in AddedBlocks : TileOf(e1) = TileOf(e2) => e1 = e2
      ]_vars

(* A tile that a splash had turned into a block was iterated afterwards *)
C2_Witness ==
    /\ visit.charted
    /\ visit.tile \notin DOMAIN rolls
    /\ visit.tile \in DOMAIN grid
    /\ visit.tile # <<0, 3>>
    /\ grid[visit.tile] \in solids

(* A coin with loot {coin: 1} lies on the tile *)
CoinAt(t) ==
    \E c \in collectables :
        /\ c.hitbox = Grid_rect(t, scale)
        /\ c.inventory = [n \in {"coin"} |-> 1]

(* The tile holds what the value drawn for it prescribes *)
AsRolled(t) ==
    /\ t \in DOMAIN rolls
    /\ t \in DOMAIN grid
    /\ IF rolls[t] < densityConfig.coinDensity
       THEN CoinAt(t) /\ grid[t] \in spaces /\ grid[t] \notin solids
       ELSE IF rolls[t] < densityConfig.blockDensity
       THEN grid[t] \in solids /\ grid[t].hitbox = Grid_rect(t, scale)
       ELSE grid[t] \in spaces /\ grid[t] \notin solids
    /\ densityConfig.coinDensity = densityConfig.blockDensity
           => grid[t] \notin solids

(* C8: an iteration of a non-destructive generate on an undecided tile, with
   value v drawn, leaves on the tile a coin and a space (not a solid Block)
   if v < coinDensity, else a solid Block if v < blockDensity, else a space,
   and with coinDensity = blockDensity no Block; and every tile that holds
   what its roll prescribed still does so after the iteration, so that it
   holds for every tile of the batch when the call returns. *)
C8_RollOutcome ==
    [][pc = "generating" =>
          /\ \A t \in {Head(tiles)} \ DOMAIN grid : AsRolled(t)'
          /\ \A t \in DOMAIN rolls : AsRolled(t) => AsRolled(t)'
      ]_vars

(* With both densities 0.5 a tile rolled 0.3 and got a coin on a space *)
C8_Witness ==
    /\ densityConfig.coinDensity = 500
    /\ densityConfig.blockDensity = 500
    /\ \E t \in DOMAIN rolls :
          rolls[t] = 300 /\ CoinAt(t) /\ grid[t] \in spaces

(* Chebyshev distance between two tile coordinates *)
Chebyshev(c, t) == Max({Abs(c[1] - t[1]), Abs(c[2] - t[2])})

(* C22: clump splash is single-level: every coordinate an iteration of
   Game.generate newly writes to the grid is the iterated tile or within
   Chebyshev distance blockClumpRadius of it when its own roll produced a
   Block, so a Block placed by splash never splashes; and a tile decided by
   splash is skipped when it is iterated later, in the same batch or in a
   later call. *)
C22_SingleLevelSplash ==
    [][pc = "generating" =>
          LET t == Head(tiles)
          IN  /\ t \in DOMAIN grid =>
                     UNCHANGED <<grid, solids, spaces, collectables, rolls>>
              /\ \A c \in DOMAIN grid' \ DOMAIN grid :
                     \/ c = t
                     \/ /\ Outcome(rolls'[t], densityConfig) = "block"
                        /\ Chebyshev(c, t) <= densityConfig.blockClumpRadius
      ]_vars

(* A block roll splashed its whole clump, and a tile the splash had decided
   was iterated afterwards and skipped *)
C22_Witness ==
    /\ visit.charted
    /\ visit.tile \notin DOMAIN rolls
    /\ visit.tile \in DOMAIN grid
    /\ grid[visit.tile] \in solids
    /\ \E t \in DOMAIN rolls :
          /\ Outcome(rolls[t], densityConfig) = "block"
          /\ Chebyshev(visit.tile, t) = 1
          /\ \A dx, dy \in -1..1 : <<t[1] + dx, t[2] + dy>> \in DOMAIN grid

(* Every grid occupant is in exactly one of solids and spaces, every member
   of solids or spaces is the occupant of exactly one coordinate, no two of
   them share a tile position, and every coin sits on a tile whose occupant
   is a space, not a solid Block *)
GridConsistent ==
    /\ \A t \in DOMAIN grid : ~((grid[t] \in solids) <=> (grid[t] \in spaces))
    /\ \A b \in solids \cup spaces :
          Cardinality({t \in DOMAIN grid : grid[t] = b}) = 1
    /\ \A b1, b2 \in solids \cup spaces :
          b1.hitbox = b2.hitbox => b1 = b2
    /\ \A c \in collectables :
          /\ TileOf(c) \in DOMAIN grid
          /\ grid[TileOf(c)] \in spaces
          /\ grid[TileOf(c)] \notin solids

(* The grid and the groups are consistent and every occupant of the grid
   is the block built for its coordinate: the world that the initial block
   placement and the generate calls build.  A write or a delete on the grid
   itself can leave a consistent world in which a member of a group sits at
   another coordinate than its own, and a generate call on its own
   coordinate then puts a second block there. *)
GridPlaced ==
    /\ GridConsistent
    /\ \A t \in DOMAIN grid : grid[t].hitbox = Grid_rect(t, scale)

(* C25: the grid and the groups are consistent, every occupant on its own
   coordinate, after the initial block placement, and in non-destructive
   mode every step of Game.generate keeps them so; so they are consistent
   after the initial block placement and any sequence of non-destructive
   generate calls: every occupant in exactly one of solids and spaces, every
   member the occupant of exactly one coordinate, every coin on a space. *)
C25_GridConsistent ==
    /\ GridPlaced
    /\ [][(pc = "generating" /\ GridPlaced) => GridPlaced']_vars

(* A coin lies on its space next to a clump of blocks *)
C25_Witness ==
    /\ GridPlaced
    /\ collectables # {}
    /\ Cardinality(solids) >= 3
    /\ \E c \in collectables :
          \E b \in solids : Chebyshev(TileOf(c), TileOf(b)) = 1

----------------------------------------------------------------------------
(* Game.update called tick after tick with a camera that stays on a tile
   the grid holds, so that the world is the blocks placed at the start *)

InitPlay ==
    /\ hitbox = Rect(0, 0, BodySize, BodySize)
    /\ speed = Vector2(0, 0)
    /\ jumps = 0
    /\ physicsConfig \in PlayConfigs
    /\ solids = PlayLayout
    /\ displacement = Vector2(0, 0)
    /\ collisions = {}
    /\ prev = [hitbox |-> hitbox, speed |-> speed, jumps |-> jumps]
    /\ inputs = NoInput
    /\ pc = "tick"
    /\ grid = PlayGrid
    /\ spaces = {}
    /\ collectables = {}
    /\ densityConfig = MainDensity
    /\ tiles = <<>>
    /\ nextId = Len(PlayTiles)
    /\ rolls = <<>>
    /\ visit = [tile |-> <<>>, charted |-> FALSE]
    /\ scale = PlayScale
    /\ viewbox = PlayViewbox
    /\ visibleTiles = {}
    /\ tick = 0
    /\ InvIdle

(* Game.update with the given keyboard and events: the input snapshot,
   Player.update, and the generation of the tiles the viewbox shows, which
   makes one of the given runs *)
GameUpdate(keyboard, events, runs) ==
    /\ pc = "tick"
    /\ inputs' = [keyboard |-> keyboard, events |-> events]
    /\ \E u \in {PlayerUpdate(hitbox, speed, jumps, inputs', physicsConfig,
                                solids, storage, collectables)} :
       \E vt \in {viewbox_tiles(viewbox, scale)} :
       \E run \in runs :
       \E vals \in {[t \in vt |-> IF t \in DOMAIN run.rolled
                                   THEN run.rolled[t] ELSE 0]} :
       \E draws \in {[t \in vt |-> IF t \in DOMAIN run.splashed
                                    THEN run.splashed[t] ELSE <<>>]} :
       \E g \in {Generate(
                    [GameWorld EXCEPT !.collectables = u.collectables],
                    run.order, vals, draws, densityConfig, scale, FALSE)} :
           /\ hitbox' = u.hitbox
           /\ speed' = u.speed
           /\ jumps' = u.jumps
           /\ displacement' = u.displacement
           /\ collisions' = u.collisions
           /\ prev' = u.prev
           /\ storage' = u.storage
           /\ visibleTiles' = vt
           /\ grid' = g.grid
           /\ solids' = g.solids
           /\ spaces' = g.spaces
           /\ collectables' = g.collectables
           /\ nextId' = g.nextId
           /\ rolls' = g.rolls
    /\ UNCHANGED <<physicsConfig, pc, result, last, densityConfig, tiles,
                   visit, scale>>

(* Game.update called with a viewbox that its caller leaves where it is: the
   set of tiles is iterated in any order and every tile the grid does not
   hold draws any value of GameDraws *)
TickWith(keyboard, events) ==
    /\ GameUpdate(keyboard, events,
                  Runs(viewbox_tiles(viewbox, scale),
                       viewbox_tiles(viewbox, scale) \ DOMAIN grid,
                       densityConfig))
    /\ UNCHANGED <<viewbox, tick>>

Tick ==
    /\ InWorld(hitbox)
    /\ \/ \E keyboard \in Keyboards, events \in EventLists :
             TickWith(keyboard, events)
       \/ \E held_jump \in BOOLEAN, events \in OtherEventLists :
             TickWith(Keyboard(FALSE, FALSE, held_jump), events)

NextPlay == Tick

SpecPlay == InitPlay /\ [][NextPlay]_vars

(* C3: in every state of the tick loop the remaining jumps are between 0
   and physicsConfig["jumps"]. *)
C3_JumpsInRange == 0 <= jumps /\ jumps <= physicsConfig.jumps

(* Two jump key-downs arrived in one tick with a single jump remaining *)
C3_Witness ==
    /\ Len(inputs.events) = 2
    /\ prev.jumps = 0
    /\ speed.y = -physicsConfig.jump + physicsConfig.gravity
    /\ physicsConfig.jumps = 1

(* C12: for every configuration with gravity > 0 and maxFall > 0, the
   vertical speed after the gravity step of Player.impulse never exceeds
   maxFall, also when gravity does not divide maxFall.  (displacement is
   the speed Player.impulse left.) *)
C12_FallCapped == displacement.y <= physicsConfig.maxFall

(* The direction the keyboard asks for: 1 right, -1 left, 0 neither or
   both *)
Direction(keyboard) ==
    IF held("right", keyboard) /\ ~held("left", keyboard) THEN 1
    ELSE IF held("left", keyboard) /\ ~held("right", keyboard) THEN -1
    ELSE 0

(* C13: with exactly one of left/right held, Player.impulse moves speed.x
   towards the signed target (+maxSpeed or -maxSpeed) by
   min(step, distance to the target), from every start in
   [-maxSpeed, maxSpeed] that is not the target, full speed in the
   opposite direction included. *)
C13_TowardTarget ==
    [][LET dir == Direction(inputs'.keyboard)
           target == dir * physicsConfig.maxSpeed
       IN  (dir # 0 /\ speed.x # target)
               => displacement'.x = speed.x + dir *
                      Min({physicsConfig.speed, Abs(target - speed.x)})]_vars

(* C14: with neither or both of left/right held, Player.impulse leaves
   |speed.x| at max(0, old |speed.x| - step) with the sign kept, and a
   speed.x of 0 stays 0. *)
C14_Decelerates ==
    [][Direction(inputs'.keyboard) = 0
           => displacement'.x =
                  (IF speed.x < 0 THEN -1 ELSE 1) *
                  Max({0, Abs(speed.x) - physicsConfig.speed})]_vars

(* Both keys held while moving at full speed 3 with step 2: 3 -> 1 *)
C14_Witness ==
    /\ held("left", inputs.keyboard) /\ held("right", inputs.keyboard)
    /\ physicsConfig.speed = 2
    /\ displacement.x = 1

(* The number of key-down events of a jump key in a list of events *)
JumpDowns(events) ==
    Cardinality({n \in 1..Len(events) :
                    events[n].type = "KEYDOWN" /\ events[n].key = "jump"})

(* The gravity step of Player.impulse applied to a vertical speed *)
Gravity(y, cfg) == IF y < cfg.maxFall THEN y + cfg.gravity ELSE y

(* C15: a jump is triggered only by a key-down event of a jump key while
   jumps > 0; each one sets speed.y to -jump and decrements jumps by
   exactly 1.  A jump key that is merely held, any other event, or a
   key-down while jumps = 0 leaves jumps unchanged and gives no impulse.
   (prev.jumps is the jumps Player.impulse left.) *)
C15_JumpByKeyDown ==
    [][LET k == Min({JumpDowns(inputs'.events), jumps})
       IN  /\ prev'.jumps = jumps - k
           /\ k > 0 => displacement'.y =
                           Gravity(-physicsConfig.jump, physicsConfig)
           /\ k = 0 => displacement'.y =
                           Gravity(speed.y, physicsConfig)]_vars

(* A key-up and then a key-down of the jump key arrived in one tick: one
   jump was spent *)
C15_Witness ==
    /\ inputs.events = <<JumpUp, JumpDown>>
    /\ prev.jumps = physicsConfig.jumps - 1
    /\ displacement.y = -physicsConfig.jump + physicsConfig.gravity

(* C16: jumps increases only at a Y-axis collision with positive
   displacement, which sets it to physicsConfig["jumps"]; the impulse, the
   X step, and a Y collision with upward or zero displacement never
   increase it. *)
C16_RefillOnlyOnLanding ==
    [][/\ prev'.jumps <= jumps
       /\ jumps' # prev'.jumps
              => /\ displacement'.y > 0
                 /\ collisions' # {}
                 /\ jumps' = physicsConfig.jumps]_vars

(* The player hit a block from below with jumps spent *)
C16_Witness ==
    /\ displacement.y < 0
    /\ collisions # {}
    /\ jumps < physicsConfig.jumps

(* The last Y move of Player.move ended in a downward collision *)
Grounded == displacement.y > 0 /\ collisions # {}

(* C20 as stated: at the end of every tick the player is grounded exactly
   when jumps = physicsConfig["jumps"] and airborne exactly when
   jumps < physicsConfig["jumps"], walking off a ledge included. *)
C20_GroundedIffFull == Grounded <=> jumps = physicsConfig.jumps

(* C20 amended: a grounded player has jumps = physicsConfig["jumps"], and
   a player with fewer jumps is airborne. *)
C20_GroundedHasFull ==
    /\ Grounded => jumps = physicsConfig.jumps
    /\ jumps < physicsConfig.jumps => ~Grounded

(* The player walked off the floor and falls below it with every jump
   left; a second state has it landed with two jumps *)
C20_Witness ==
    /\ ~Grounded
    /\ displacement.y > 0
    /\ jumps = physicsConfig.jumps
    /\ Top(hitbox) > PlayScale

(* C23: after any sequence of ticks from speed.x = 0 the horizontal speed
   satisfies |speed.x| <= maxSpeed, also when the step does not divide
   maxSpeed; it holds for the speed Player.impulse leaves and for the speed
   at the end of the tick. *)
C23_SpeedCapped ==
    /\ Abs(displacement.x) <= physicsConfig.maxSpeed
    /\ Abs(speed.x) <= physicsConfig.maxSpeed

(* With step 2 and maxSpeed 3 the second acceleration was capped at 3 *)
C23_Witness ==
    /\ physicsConfig.speed = 2
    /\ physicsConfig.maxSpeed = 3
    /\ held("right", inputs.keyboard) /\ ~held("left", inputs.keyboard)
    /\ displacement.x = 3

----------------------------------------------------------------------------
(* The main loop of main() with no key input: the player falls from (0, 0)
   towards the block main() places at tile (0, 3), while every tick
   generates the tiles its viewbox shows, iterating the set in an order the
   model leaves open, and recentres the viewbox on the player *)

FallConfigs ==
    {[jump |-> jp, gravity |-> 1, maxFall |-> 32,
      maxSpeed |-> 7, speed |-> 2, jumps |-> j] :
        jp \in {19}, j \in 1..MaxJumps}

(* The tiles between the start of the player and the block below it, and
   the one of them right above that block *)
PathTiles == {<<0, 0>>, <<0, 1>>, <<0, 2>>}
BlockTile == <<0, 2>>

(* The values drawn for the uncharted tiles: val on the given tile, a space
   (0.9) on every other *)
Rolled(uncharted, tile, val) ==
    [t \in uncharted |-> IF t = tile THEN val ELSE 900]

(* One enumeration of the set of tiles, column by column: the base from
   which the orders of the fall are built *)
ColumnMajor(vt) ==
    CHOOSE order \in
        {[i \in 1..(m * n) |->
             <<left + ((i - 1) \div n), top + ((i - 1) % n)>>] :
            left \in {Min({t[1] : t \in vt})},
            top \in {Min({t[2] : t \in vt})},
            m \in {Cardinality({t[1] : t \in vt})},
            n \in {Cardinality({t[2] : t \in vt})}} : TRUE

(* An order of the set in which the tiles of first come before tile and
   every other tile after it *)
OrderAfter(vt, first, tile) ==
    SelectSeq(ColumnMajor(vt), LAMBDA t : t \in first)
        \o <<tile>>
        \o SelectSeq(ColumnMajor(vt), LAMBDA t : t \notin first \cup {tile})

(* The tiles a splash of tile reaches, tile itself apart *)
ClumpOf(tile) ==
    {<<tile[1] + x, tile[2] + y>> :
        x \in (-MainDensity.blockClumpRadius)..MainDensity.blockClumpRadius,
        y \in (-MainDensity.blockClumpRadius)..MainDensity.blockClumpRadius}
    \ {tile}

(* The runs of Game.generate in the fall.  Draws: a coin or a space on one
   tile of the path, or a block on BlockTile with a splash that passes on
   every offset or on none; a space (0.9) on every other tile.  Orders: the
   set is iterated in hash order, which the model leaves open.  An
   iteration that rolls a space or a coin writes its own tile only, and the
   blocks a splash adds roll nothing, so two orders differ in the world they
   leave only by which tiles of the clump are iterated before the tile that
   rolls the block (they get their own roll; the others get a block of the
   splash), and otherwise by the order in which the entities are created.
   One tile at most rolls a block in a generation of the fall.  With a
   passing splash there is one order for every set of tiles of the clump
   that come first; in the other runs no iteration writes a tile of another
   and one enumeration stands for every order. *)
FallRuns(vt, uncharted) ==
    {[order |-> ColumnMajor(vt), rolled |-> Rolled(uncharted, tile, val),
      splashed |-> <<>>] :
        tile \in PathTiles, val \in {3, 900}}
    \cup {[order |-> ColumnMajor(vt),
           rolled |-> Rolled(uncharted, BlockTile, 30),
           splashed |-> [t \in {BlockTile} |-> SplashNone]] :
              tile \in {BlockTile} \cap uncharted}
    \cup {[order |-> OrderAfter(vt, first, BlockTile),
           rolled |-> Rolled(uncharted, BlockTile, 30),
           splashed |-> [t \in {BlockTile} |-> SplashAll]] :
              first \in IF BlockTile \in uncharted
                        THEN SUBSET (ClumpOf(BlockTile) \cap uncharted)
                        ELSE {}}

InitFall ==
    /\ hitbox = PlayerHitbox
    /\ speed = Vector2(0, 0)
    /\ jumps = 0
    /\ physicsConfig \in FallConfigs
    /\ solids = {Block(1, <<0, 3>>, blockSize)}
    /\ displacement = Vector2(0, 0)
    /\ collisions = {}
    /\ prev = [hitbox |-> hitbox, speed |-> speed, jumps |-> jumps]
    /\ inputs = NoInput
    /\ pc = "tick"
    /\ grid = [k \in {<<0, 3>>} |-> Block(1, <<0, 3>>, blockSize)]
    /\ spaces = {}
    /\ collectables = {}
    /\ densityConfig = MainDensity
    /\ tiles = <<>>
    /\ nextId = 1
    /\ rolls = <<>>
    /\ visit = [tile |-> <<>>, charted |-> FALSE]
    /\ scale = blockSize
    /\ viewbox = MainViewbox
    /\ visibleTiles = {}
    /\ tick = 0
    /\ InvIdle

(* One iteration of the loop, which no condition of the fall ends:
   game.update(events, viewbox), the viewbox locked on the player, the
   render, which changes no state, and the tick counted.  The program reads
   the count nowhere; it is followed up to FallTicks. *)
FallTick ==
    /\ GameUpdate(NoInput.keyboard, NoInput.events,
                  FallRuns(viewbox_tiles(viewbox, scale),
                           viewbox_tiles(viewbox, scale) \ DOMAIN grid))
    /\ viewbox' = CentredOn(viewbox, center(hitbox'))
    /\ tick' = IF tick < FallTicks THEN tick + 1 ELSE tick

NextFall == FallTick

(* The main loop keeps iterating while the program runs *)
SpecFall == InitFall /\ [][NextFall]_vars /\ WF_vars(FallTick)

Landed ==
    /\ Bottom(hitbox) = 96
    /\ speed.y = 0
    /\ jumps = physicsConfig.jumps

(* The generation has built a solid besides the block of main() *)
OtherObstacle == solids # {Block(1, <<0, 3>>, blockSize)}

(* C5: falling from (0, 0) with no input towards the block at tile (0, 3),
   with no other obstacle (the generation builds no solid, in any tick), the
   tick loop eventually reaches hitbox.bottom = 96, speed.y = 0 and jumps =
   the configured maximum, and this holds at the end of every later tick.
   A solid that is built stays in solids, so the runs without another
   obstacle are those in which OtherObstacle never holds. *)
C5_LandsAndStays == <>[](Landed \/ OtherObstacle)

(* The player has landed on the block below its start, in a world in which
   the ticks have generated spaces and no other solid, and the loop has
   kept iterating up to the last tick that is counted *)
C5_Witness ==
    /\ Landed
    /\ ~OtherObstacle
    /\ spaces # {}
    /\ tick = FallTicks
    /\ hitbox.x = 0
    /\ displacement.y > 0
    /\ collisions = {Block(1, <<0, 3>>, blockSize)}

----------------------------------------------------------------------------
(* The main loop of main(): Game.update (input snapshot, Player.update,
   generation of the tiles the viewbox shows), then the camera recentre and
   the render, which changes no state *)

GamePhysics ==
    [jump |-> 3, gravity |-> 1, maxFall |-> 3,
     maxSpeed |-> 2, speed |-> 1, jumps |-> 1]

(* The viewbox Game.update is called with: main() recentres it only after
   the call *)
GenerationViewbox(vb, hb) == vb

(* The input snapshots of a tick: nothing, right held, a jump key-down *)
GameInputs ==
    {NoInput,
     [keyboard |-> Keyboard(FALSE, TRUE, FALSE), events |-> <<>>],
     [keyboard |-> Keyboard(FALSE, FALSE, TRUE), events |-> <<JumpDown>>]}

InitGame ==
    /\ hitbox = Rect(0, 0, BodySize, BodySize)
    /\ speed = Vector2(0, 0)
    /\ jumps = 0
    /\ physicsConfig = GamePhysics
    /\ solids = {Block(1, <<0, 3>>, PlayScale)}
    /\ displacement = Vector2(0, 0)
    /\ collisions = {}
    /\ prev = [hitbox |-> hitbox, speed |-> speed, jumps |-> jumps]
    /\ inputs = NoInput
    /\ densityConfig = MainDensity
    /\ scale = PlayScale
    /\ grid = [k \in {<<0, 3>>} |-> Block(1, <<0, 3>>, PlayScale)]
    /\ spaces = {}
    /\ collectables = {}
    /\ nextId = 1
    /\ tiles = <<>>
    /\ rolls = <<>>
    /\ visit = [tile |-> <<>>, charted |-> FALSE]
    /\ viewbox = Rect(0, 0, GameView, GameView)
    /\ visibleTiles = {}
    /\ tick = 0
    /\ pc = "tick"
    /\ InvIdle

(* Game.update up to the end of Player.update *)
GamePlayer(inp) ==
    /\ pc = "tick"
    /\ tick < MaxTicks
    /\ inputs' = inp
    /\ \E u \in {PlayerUpdate(hitbox, speed, jumps, inp, physicsConfig,
                                solids, storage, collectables)} :
           /\ hitbox' = u.hitbox
           /\ speed' = u.speed
           /\ jumps' = u.jumps
           /\ displacement' = u.displacement
           /\ collisions' = u.collisions
           /\ prev' = u.prev
           /\ storage' = u.storage
           /\ collectables' = u.collectables
    /\ pc' = "generate"
    /\ UNCHANGED <<physicsConfig, solids, result, last, viewVars>>
    /\ UNCHANGED <<grid, spaces, densityConfig, tiles, nextId, rolls,
                   visit>>

(* The rest of Game.update: the visible tiles are generated in some order
   of the set viewbox_tiles returns *)
GameGenerate ==
    /\ pc = "generate"
    /\ \E vt \in {viewbox_tiles(GenerationViewbox(viewbox, hitbox), scale)} :
         /\ visibleTiles' = vt
         /\ \E order \in Orders(vt) :
            \E rolled \in [vt \ DOMAIN grid -> GameDraws] :
            \E splashed \in
                 [{t \in vt \ DOMAIN grid :
                      Outcome(rolled[t], densityConfig) = "block"}
                  -> GameSplashDraws] :
            \E g \in {Generate(
                        GameWorld, order,
                        [t \in vt |-> IF t \in DOMAIN rolled
                                      THEN rolled[t] ELSE 0],
                        [t \in vt |-> IF t \in DOMAIN splashed
                                      THEN splashed[t] ELSE <<>>],
                        densityConfig, scale, FALSE)} :
                /\ grid' = g.grid
                /\ solids' = g.solids
                /\ spaces' = g.spaces
                /\ collectables' = g.collectables
                /\ nextId' = g.nextId
                /\ rolls' = g.rolls
    /\ pc' = "camera"
    /\ UNCHANGED <<hitbox, speed, jumps, physicsConfig, displacement,
                   collisions, prev, inputs>>
    /\ UNCHANGED <<densityConfig, tiles, visit, invVars, scale, viewbox,
                   tick>>

(* main() after game.update: the viewbox is locked on the player, the
   frame is rendered and the tick counted *)
GameCamera ==
    /\ pc = "camera"
    /\ viewbox' = CentredOn(viewbox, center(hitbox))
    /\ tick' = tick + 1
    /\ pc' = "tick"
    /\ UNCHANGED <<playerVars, genVars, invVars, scale, visibleTiles>>

NextGame ==
    \/ \E inp \in GameInputs : GamePlayer(inp)
    \/ GameGenerate
    \/ GameCamera

SpecGame == InitGame /\ [][NextGame]_vars

(* C11: within every tick the camera is recentred on the player before the
   world generation, so the generation of a tick uses the viewbox already
   recentred on the player's position of that tick.  main() recentres the
   viewbox after Game.update has generated, so the statement fails. *)
C11_GenerationAfterRecentre ==
    pc = "camera" =>
        visibleTiles = viewbox_tiles(CentredOn(viewbox, center(hitbox)),
                                     scale)

(* C21: at render time of every tick every tile visible in the viewbox,
   after it has been recentred on the player, is already decided in the
   grid.  (The render follows the recentre in the camera step.)  The tiles
   that come into view through the recentre are generated only by the next
   tick, so the statement fails. *)
C21_VisibleDecidedAtRender ==
    (pc = "tick" /\ tick > 0) =>
        viewbox_tiles(viewbox, scale) \subseteq DOMAIN grid

(* The coins generated so far and the coin items still lying around *)
CoinsGenerated ==
    Cardinality({t \in DOMAIN rolls :
                    Outcome(rolls[t], densityConfig) = "coin"})
CoinItems ==
    {c \in collectables : Inventory_getitem(c.inventory, "coin") > 0}

(* C18: an item the player's hitbox collides with at the pickup step is
   removed from collectables and its loot is added to the player's
   inventory; at the end of every tick, the player's coin count plus the
   coin items still in collectables equals the coin items ever generated. *)
C18_PickupConserves ==
    /\ [](Inventory_getitem(storage, "coin") + Cardinality(CoinItems)
             = CoinsGenerated)
    /\ [][pc = "tick" =>
             LET got == Solid_collisions(hitbox', collectables)
             IN  /\ collectables' = collectables \ got
                 /\ Inventory_getitem(storage', "coin") =
                        Inventory_getitem(storage, "coin")
                            + Cardinality(got)]_vars

(* One coin was picked up and another one lies in the world *)
C18_Witness ==
    /\ pc = "tick"
    /\ Inventory_getitem(storage, "coin") = 1
    /\ CoinItems # {}
    /\ CoinsGenerated = 2

(* C19: at the end of every Player.move of the tick loop the player's
   hitbox has zero overlapping area with every Block in solids, blocks
   generated in earlier ticks included. *)
C19_NoOverlapAfterMove ==
    pc = "generate" =>
        \A b \in solids : OverlapArea(hitbox, b.hitbox) = 0

====
